---- MODULE Spec2Model ----
(***************************************************************************)
(* Model of the option-chain arbitrage cleaner (OptionsArbitrage.py).      *)
(*                                                                         *)
(* A quote table (pandas DataFrame) is a sequence of rows                  *)
(*   [idx, strike, bid, ask]                                               *)
(* in row order; idx is the row's index label.  Prices, strikes and spots  *)
(* are integers in one common unit (ticks).  The discount factors          *)
(* df_r = exp(-r*T) and df_q = exp(-q*T) are the rationals dfr/den and     *)
(* dfq/den.  On such a grid two compared quantities differ by 0 or by far  *)
(* more than the tolerance 1e-10, so "x > y + 1e-10" is "x > y" and        *)
(* "x < y - 1e-10" is "x < y".  Strikes are unique and positive, index     *)
(* labels are unique, and the generated quotes have bid <= ask.            *)
(***************************************************************************)
EXTENDS Integers, Sequences, FiniteSets, TLC

VARIABLES
    df,           \* the table passed to the cleaner by the current run
    option_type,  \* "call" or "put"
    cx,           \* the pricing context (Sb, Sa, df_r, df_q); in a batch the
                  \* one cleaner object shared by all tables
    max_iter,     \* the iteration cap of clean_single_dataframe
    df_clean,     \* the current table of the loop
    atm_strike,   \* the anchor strike chosen by identify_atm_strike
    atm_index,    \* the index label the loop holds for the anchor
    iteration,    \* number of loop bodies executed in the current run
    state,        \* START, RUNNING, CLEAN, ITER_EXHAUSTED, ANCHOR_LOST,
                  \* KEY_ERROR, VALUE_ERROR; IDLE between the tables of a batch
    run,          \* 1: first run on the input, 2: run on the first run's output
    first,        \* what the first run was given and what it returned
    list_of_dfs,     \* clean_all_dataframes: the caller's list of tables
    option_types,    \* clean_all_dataframes: the caller's list of side labels
    cleaned_dfs,     \* clean_all_dataframes: the cleaned tables so far
    removed_counts,  \* clean_all_dataframes: report['removed_counts'] so far
    batch,           \* NONE (no batch call), LOOP, RETURNED, RAISED
    procs,           \* the per-table runs of a batch executed concurrently
    volatility_data,           \* tk_main: the volatilities shown, per maturity
    original_volatility_data,  \* tk_main: the volatilities at start-up
    offset_entries,  \* tk_main: the text of each maturity's Offset cell
    offset_cells,    \* tk_main: the style of each maturity's Offset cell
    maturity_var,    \* tk_main: the maturity selected in the control row
    offset_entry,    \* tk_main: the text of the "Offset Value" entry
    popup,           \* the confirmation popup that is open, or NoPopup
    editing,         \* the maturity whose Offset cell has an entry open
    event,           \* the handler that ran last
    last_offset,     \* per maturity, the offset last given to apply_offset
                     \* since the last reset_all
    pressed          \* what the popup's maturity showed when Apply Offset
                     \* was pressed

runVars == <<df, option_type, cx, max_iter, df_clean, atm_strike, atm_index,
             iteration, state, run, first>>

batchVars == <<list_of_dfs, option_types, cleaned_dfs, removed_counts, batch,
               procs>>

guiVars == <<volatility_data, original_volatility_data, offset_entries,
             offset_cells, maturity_var, offset_entry, popup, editing, event,
             last_offset, pressed>>

vars == <<runVars, batchVars, guiVars>>

----------------------------------------------------------------------------
(* Bounds of the input space *)

MaxRows == 3
MaxStrike == 3
MaxPrice == 1
MaxIter == 2
MaxIndexBase == 1
MaxTables == 2
MaxOffset == 3

DefaultMaxIter == 20

----------------------------------------------------------------------------
(* Helpers *)

AbsVal(x) == IF x < 0 THEN -x ELSE x

Max2(a, b) == IF a >= b THEN a ELSE b

Rows(t) == {t[i] : i \in DOMAIN t}

StrikesOf(t) == {t[i].strike : i \in DOMAIN t}

LabelsOf(t) == {t[i].idx : i \in DOMAIN t}

\* the (strike, bid, ask) content of a table, without labels or order
QuotesOf(t) == {<<t[i].strike, t[i].bid, t[i].ask>> : i \in DOMAIN t}

\* Pricing context of __init__
MakeContext(spot_bid, spot_ask, dfactor) ==
    [Sb |-> spot_bid, Sa |-> spot_ask,
     dfr |-> dfactor[1], dfq |-> dfactor[2], den |-> dfactor[2]]

----------------------------------------------------------------------------
(* identify_atm_strike: np.argmin returns the FIRST position, in row       *)
(* order, at which |strike - spot_mid| is minimal.  Distances are doubled  *)
(* to stay in the integers: 2*|K - (Sb+Sa)/2| = |2K - (Sb+Sa)|.            *)

AtmDistance(t, i, c) == AbsVal(2 * t[i].strike - (c.Sb + c.Sa))

ArgMinFirst(t, c) ==
    CHOOSE i \in DOMAIN t :
        /\ \A j \in DOMAIN t : AtmDistance(t, i, c) <= AtmDistance(t, j, c)
        /\ \A j \in 1..(i-1) : AtmDistance(t, j, c) > AtmDistance(t, i, c)

identify_atm_strike(t, c) == t[ArgMinFirst(t, c)].strike

----------------------------------------------------------------------------
(* df.sort_values('strike').reset_index(drop=True): rows in ascending      *)
(* strike order, relabelled 0..n-1.                                        *)

SortedView(t) ==
    [i \in 1..Len(t) |->
        LET p == CHOOSE x \in DOMAIN t :
                    Cardinality({y \in DOMAIN t : t[y].strike < t[x].strike}) = i - 1
        IN  [idx |-> i - 1, strike |-> t[p].strike,
             bid |-> t[p].bid, ask |-> t[p].ask]]

\* a removal without reset_index: the rows keep their labels
ResetIndex_keeps_labels(t) == t

\* df.reset_index(drop=True)
ResetIndex(t) == [i \in 1..Len(t) |-> [t[i] EXCEPT !.idx = i - 1]]

\* a drop that takes the labels for row positions
DropLabels_by_position(t, labels) ==
    LET keep == {i \in DOMAIN t : (i - 1) \notin labels}
    IN  [i \in 1..Cardinality(keep) |->
            t[CHOOSE x \in keep : Cardinality({y \in keep : y < x}) = i - 1]]

\* a drop applied to the strike-sorted, relabelled view of the table
DropLabels_from_sorted(t, labels) ==
    SelectSeq(SortedView(t), LAMBDA r : r.idx \notin labels)

\* df.drop(index=labels), defined when every label is in the index
DropLabels(t, labels) == SelectSeq(t, LAMBDA r : r.idx \notin labels)

\* the row position of strike k instead of the row's index label
IndexOfStrike_position(t, k) ==
    (CHOOSE p \in DOMAIN t :
        /\ t[p].strike = k
        /\ \A j \in 1..(p-1) : t[j].strike # k) - 1

\* df.index[df['strike'] == k].tolist()[0]
IndexOfStrike(t, k) ==
    LET i == CHOOSE p \in DOMAIN t :
                /\ t[p].strike = k
                /\ \A j \in 1..(p-1) : t[j].strike # k
    IN  t[i].idx

----------------------------------------------------------------------------
(* _check_vertical_no_arb: positions, in the sorted and relabelled view,   *)
(* of the rows flagged by monotonicity (the higher strike of a pair) and   *)
(* by convexity (the middle strike of a triplet).                          *)

MonotonicityBroken(lo, hi, price_type) ==
    IF price_type = "call" THEN lo.ask < hi.bid ELSE lo.bid > hi.ask

\* slope1 > slope2 + 1e-10, cross-multiplied by the positive strike gaps
ConvexityBroken(r1, r2, r3, price_type) ==
    LET p1 == IF price_type = "call" THEN r1.ask ELSE r1.bid
        p2 == IF price_type = "call" THEN r2.bid ELSE r2.ask
        p3 == IF price_type = "call" THEN r3.ask ELSE r3.bid
    IN  (p2 - p1) * (r3.strike - r2.strike) > (p3 - p2) * (r2.strike - r1.strike)

\* the monotonicity pass flags the lower strike of a broken pair
check_vertical_flags_lower(t, price_type) ==
    LET df_sorted == SortedView(t)
        n == Len(df_sorted)
        monotonicity ==
            {df_sorted[i].idx : i \in
                {j \in 1..(n-1) :
                    MonotonicityBroken(df_sorted[j], df_sorted[j+1], price_type)}}
        convexity ==
            {df_sorted[i].idx : i \in
                {j \in 2..(n-1) :
                    ConvexityBroken(df_sorted[j-1], df_sorted[j], df_sorted[j+1],
                                    price_type)}}
    IN  monotonicity \cup convexity

check_vertical_no_arb(t, price_type) ==
    LET df_sorted == SortedView(t)
        n == Len(df_sorted)
        monotonicity ==
            {df_sorted[i+1].idx : i \in
                {j \in 1..(n-1) :
                    MonotonicityBroken(df_sorted[j], df_sorted[j+1], price_type)}}
        convexity ==
            {df_sorted[i].idx : i \in
                {j \in 2..(n-1) :
                    ConvexityBroken(df_sorted[j-1], df_sorted[j], df_sorted[j+1],
                                    price_type)}}
    IN  monotonicity \cup convexity

(* _check_butterfly_no_arb: positions, in the sorted and relabelled view,  *)
(* of the middle rows of approximately equally spaced triplets whose       *)
(* butterfly cost is positive.  The formula is the same for both sides.    *)

\* abs((K - K_prev) - (K_next - K)) / K > 0.01, with K > 0
UnequalSpacing(K_prev, K, K_next) ==
    100 * AbsVal((K - K_prev) - (K_next - K)) > K

\* the cost of the opposite position: long the body, short the wings
ButterflyCost_long_body(r1, r2, r3) == 2 * r2.ask - r1.bid - r3.bid

ButterflyCost(r1, r2, r3) == r1.bid - 2 * r2.ask + r3.bid

check_butterfly_no_arb(t, price_type) ==
    LET df_sorted == SortedView(t)
        n == Len(df_sorted)
    IN  {df_sorted[i].idx : i \in
            {j \in 2..(n-1) :
                /\ ~UnequalSpacing(df_sorted[j-1].strike, df_sorted[j].strike,
                                   df_sorted[j+1].strike)
                /\ ButterflyCost(df_sorted[j-1], df_sorted[j], df_sorted[j+1]) > 0}}

(* _check_bounds: index labels of the rows outside the model-free bounds.  *)
(* All quantities are multiplied by the denominator of the discount        *)
(* factors.                                                                *)

LowerBound(K, price_type, c) ==
    IF price_type = "call"
    THEN Max2(c.Sb * c.dfq - K * c.dfr, 0)
    ELSE Max2(K * c.dfr - c.Sa * c.dfq, 0)

UpperBound(K, price_type, c) ==
    IF price_type = "call" THEN c.Sa * c.den ELSE K * c.dfr

\* a bounds test that forgets the upper bound
OutOfBounds_lower_only(r, price_type, c) ==
    r.bid * c.den < LowerBound(r.strike, price_type, c)

OutOfBounds(r, price_type, c) ==
    \/ r.bid * c.den < LowerBound(r.strike, price_type, c)
    \/ r.ask * c.den > UpperBound(r.strike, price_type, c)

\* a bounds check that returns positions of the strike-sorted view, as the
\* other two checkers do
check_bounds_by_rank(t, price_type, c) ==
    {Cardinality({k \in DOMAIN t : t[k].strike < t[i].strike}) : i \in
        {j \in DOMAIN t : OutOfBounds(t[j], price_type, c)}}

check_bounds(t, price_type, c) ==
    {t[i].idx : i \in {j \in DOMAIN t : OutOfBounds(t[j], price_type, c)}}

----------------------------------------------------------------------------
(* One body of the loop of clean_single_dataframe *)

\* a union that leaves out the butterfly check
UnionOfViolations_without_butterfly(t, price_type, c) ==
    check_vertical_no_arb(t, price_type) \cup check_bounds(t, price_type, c)

\* set(v_vertical + v_butterfly + v_bounds)
UnionOfViolations(t, price_type, c) ==
    check_vertical_no_arb(t, price_type)
        \cup check_butterfly_no_arb(t, price_type)
        \cup check_bounds(t, price_type, c)

\* the union without the discard of the anchor's label
all_violations_keep_anchor(t, price_type, c, anchor_label) ==
    UnionOfViolations(t, price_type, c)

\* all_violations.discard(atm_index)
all_violations(t, price_type, c, anchor_label) ==
    UnionOfViolations(t, price_type, c) \ {anchor_label}

\* an emptiness test that lets a single violation pass
NoViolations_allows_one(v) == Cardinality(v) <= 1

\* "if not all_violations"
NoViolations(v) == v = {}

\* a loop that runs one body too many
LoopContinues_off_by_one(done, cap) == done <= cap

\* "for iteration in range(max_iter)": one more body is due
LoopContinues(done, cap) == done < cap

\* a loop body that keeps the anchor's old label after a removal
LoopBody_stale_label(t, anchor_label, anchor_strike, price_type, c) ==
    LET v == all_violations(t, price_type, c, anchor_label)
    IN  IF NoViolations(v)
        THEN [table |-> t, label |-> anchor_label, outcome |-> "CLEAN"]
        ELSE IF ~(v \subseteq LabelsOf(t))
        THEN [table |-> t, label |-> anchor_label, outcome |-> "KEY_ERROR"]
        ELSE LET next == ResetIndex(DropLabels(t, v))
             IN  IF anchor_strike \in StrikesOf(next)
                 THEN [table |-> next, label |-> anchor_label,
                       outcome |-> "REMOVED"]
                 ELSE [table |-> next, label |-> anchor_label,
                       outcome |-> "ANCHOR_LOST"]

(* The outcome of one loop body on table t with the anchor label held by   *)
(* the loop: the next table, the next anchor label and how the body ended. *)
(* drop raises KeyError when a label to drop is not in the index.          *)
LoopBody(t, anchor_label, anchor_strike, price_type, c) ==
    LET v == all_violations(t, price_type, c, anchor_label)
    IN  IF NoViolations(v)
        THEN [table |-> t, label |-> anchor_label, outcome |-> "CLEAN"]
        ELSE IF ~(v \subseteq LabelsOf(t))
        THEN [table |-> t, label |-> anchor_label, outcome |-> "KEY_ERROR"]
        ELSE LET next == ResetIndex(DropLabels(t, v))
             IN  IF anchor_strike \in StrikesOf(next)
                 THEN [table |-> next,
                       label |-> IndexOfStrike(next, anchor_strike),
                       outcome |-> "REMOVED"]
                 ELSE [table |-> next, label |-> anchor_label,
                       outcome |-> "ANCHOR_LOST"]

\* the state of the run after a body that ended with the given outcome
StateAfter(outcome, done, cap) ==
    IF outcome = "REMOVED"
    THEN IF LoopContinues(done, cap) THEN "RUNNING" ELSE "ITER_EXHAUSTED"
    ELSE outcome

(* clean_single_dataframe as a function: the table returned and the        *)
(* terminal state, from the loop state (t, anchor_label) with `done`       *)
(* bodies executed.                                                        *)
RECURSIVE CleanFrom(_, _, _, _, _, _, _)
CleanFrom(t, anchor_label, anchor_strike, price_type, c, done, cap) ==
    IF ~LoopContinues(done, cap)
    THEN [table |-> t, state |-> "ITER_EXHAUSTED", iterations |-> done]
    ELSE LET b == LoopBody(t, anchor_label, anchor_strike, price_type, c)
             s == StateAfter(b.outcome, done + 1, cap)
         IN  IF s = "RUNNING"
             THEN CleanFrom(b.table, b.label, anchor_strike, price_type, c,
                            done + 1, cap)
             ELSE [table |-> b.table, state |-> s, iterations |-> done + 1]

clean_single_dataframe(t, price_type, anchor_strike, cap, c) ==
    CleanFrom(t, IndexOfStrike(t, anchor_strike), anchor_strike, price_type, c,
              0, cap)

\* lines 141 and 145 of clean_all_dataframes for one table
CleanTable(t, price_type, cap, c) ==
    clean_single_dataframe(t, price_type, identify_atm_strike(t, c), cap, c)

----------------------------------------------------------------------------
(* Inputs *)

Sides == {"call", "put"}

\* bid and ask of a quote, with bid <= ask as the data model assumes
PriceValues ==
    {p \in [bid : 0..MaxPrice, ask : 0..MaxPrice] : p.bid <= p.ask}

\* n unique strikes in any row order
StrikeLists(n) ==
    {k \in [1..n -> 1..MaxStrike] :
        \A i \in 1..n : \A j \in (i+1)..n : k[i] # k[j]}

\* tables of n quotes with unique strikes, in any row order
QuoteLists(n) ==
    {[i \in 1..n |-> [strike |-> k[i], bid |-> p[i].bid, ask |-> p[i].ask]] :
        k \in StrikeLists(n), p \in [1..n -> PriceValues]}

\* index labels base, base+1, ... in row order (base 0: the default index)
Labelled(q, base) ==
    [i \in DOMAIN q |->
        [idx |-> base + i - 1, strike |-> q[i].strike,
         bid |-> q[i].bid, ask |-> q[i].ask]]

\* the lists of QuoteLists(n) that are in ascending strike order
SortedQuoteLists(n) ==
    {q \in QuoteLists(n) : \A i \in 1..(n-1) : q[i].strike < q[i+1].strike}

(* The tables given to the cleaner: any row order with the default index,  *)
(* and strike order with an index that starts at MaxIndexBase (a slice of  *)
(* a longer frame).                                                        *)
InputTables ==
    UNION {{Labelled(q, 0) : q \in QuoteLists(n)}
            \cup {Labelled(q, MaxIndexBase) : q \in SortedQuoteLists(n)} :
            n \in 1..MaxRows}

(* Pricing contexts: spot 2/2 with r = 0, and spot 1/2 with exp(-r*T) =    *)
(* 1/2; q = 0.0 as in clean_all_dataframes, so exp(-q*T) = 1.  A discount  *)
(* factor is given as <<numerator, denominator>>.                          *)
Contexts == {MakeContext(2, 2, <<1, 1>>), MakeContext(1, 2, <<1, 2>>)}

(* Scenario A of the specification, in ticks of 0.1: calls at strikes      *)
(* 90, 95, 100, 105, 110 with bid/ask 12/12.5, 8/8.3, 5/5.2, 2.8/10,       *)
(* 1/1.3; spot bid = spot ask = 100, r = 0.                                *)
ScenarioATable ==
    Labelled(<< [strike |-> 900,  bid |-> 120, ask |-> 125],
                [strike |-> 950,  bid |-> 80,  ask |-> 83],
                [strike |-> 1000, bid |-> 50,  ask |-> 52],
                [strike |-> 1050, bid |-> 28,  ask |-> 100],
                [strike |-> 1100, bid |-> 10,  ask |-> 13] >>, 0)

ScenarioAContext == MakeContext(1000, 1000, <<1, 1>>)

(* Scenario D of the specification, in ticks of 0.1: calls at the equally   *)
(* spaced strikes 95, 100, 105 with bid <= ask drawn from the levels 4, 8, *)
(* ...; r = 0 and the spot at 100 (the anchor is 100) or at 95 (the anchor *)
(* is 95).                                                                 *)
ScenarioDPrices ==
    {p \in [bid : {40 * (l + 1) : l \in 0..MaxPrice},
            ask : {40 * (l + 1) : l \in 0..MaxPrice}] : p.bid <= p.ask}

ScenarioDTables ==
    {Labelled(<< [strike |-> 950,  bid |-> p[1].bid, ask |-> p[1].ask],
                 [strike |-> 1000, bid |-> p[2].bid, ask |-> p[2].ask],
                 [strike |-> 1050, bid |-> p[3].bid, ask |-> p[3].ask] >>, 0) :
        p \in [1..3 -> ScenarioDPrices]}

ScenarioDContexts ==
    {MakeContext(1000, 1000, <<1, 1>>), MakeContext(950, 950, <<1, 1>>)}

NoRun == [input |-> <<>>, output |-> <<>>, state |-> "NONE", iterations |-> 0]

\* no window of the volatility table is open
NoGui ==
    /\ volatility_data = <<>>
    /\ original_volatility_data = <<>>
    /\ offset_entries = <<>>
    /\ offset_cells = <<>>
    /\ maturity_var = "none"
    /\ offset_entry = <<>>
    /\ popup = <<>>
    /\ editing = "none"
    /\ event = "none"
    /\ last_offset = <<>>
    /\ pressed = <<>>

----------------------------------------------------------------------------
(* The state machine *)

Init ==
    /\ \/ /\ df \in InputTables
          /\ option_type \in Sides
          /\ cx \in Contexts
          /\ max_iter \in {1, MaxIter}
       \/ /\ df = ScenarioATable
          /\ option_type = "call"
          /\ cx = ScenarioAContext
          /\ max_iter = DefaultMaxIter
       \/ /\ df \in ScenarioDTables
          /\ option_type = "call"
          /\ cx \in ScenarioDContexts
          /\ max_iter = DefaultMaxIter
    /\ df_clean = <<>>
    /\ atm_strike = 0
    /\ atm_index = 0
    /\ iteration = 0
    /\ state = "START"
    /\ run = 1
    /\ first = NoRun
    /\ list_of_dfs = <<>>
    /\ option_types = <<>>
    /\ cleaned_dfs = <<>>
    /\ removed_counts = <<>>
    /\ batch = "NONE"
    /\ procs = <<>>
    /\ NoGui

(* clean_all_dataframes, lines 141 and 145, and the entry of               *)
(* clean_single_dataframe, lines 96-97: choose the anchor, copy the table, *)
(* resolve the anchor's label.                                             *)
StartRun ==
    /\ state = "START"
    /\ IF Len(df) = 0
       THEN \* np.argmin of an empty sequence raises ValueError
            /\ state' = "VALUE_ERROR"
            /\ UNCHANGED <<atm_strike, df_clean, atm_index, iteration>>
       ELSE /\ atm_strike' = identify_atm_strike(df, cx)
            /\ df_clean' = df
            /\ atm_index' = IndexOfStrike(df, atm_strike')
            /\ iteration' = 0
            /\ state' = IF LoopContinues(0, max_iter)
                        THEN "RUNNING" ELSE "ITER_EXHAUSTED"
    /\ UNCHANGED <<df, option_type, cx, max_iter, run, first>>
    /\ UNCHANGED batchVars
    /\ UNCHANGED guiVars

\* a loop body that works in place on the frame the caller passed
CallerFrameAfter_shared(caller, work) == work

(* The frame the caller passed, after a loop body that left `work` as the  *)
(* working frame.  df.copy() (line 96) made the working frame an object of *)
(* its own; sort_values and reset_index in the checkers (lines 22, 55) and *)
(* drop and reset_index (line 113) are called without inplace=True and     *)
(* return new frames; _check_bounds only reads rows.  No statement writes  *)
(* to the caller's frame.                                                  *)
CallerFrameAfter(caller, work) == caller

(* One body of the loop, lines 99-119 *)
Iteration ==
    /\ state = "RUNNING"
    /\ LET b == LoopBody(df_clean, atm_index, atm_strike, option_type, cx)
       IN  /\ df_clean' = b.table
           /\ atm_index' = b.label
           /\ iteration' = iteration + 1
           /\ state' = StateAfter(b.outcome, iteration + 1, max_iter)
           /\ df' = CallerFrameAfter(df, b.table)
    /\ UNCHANGED <<option_type, cx, max_iter, atm_strike, run, first>>
    /\ UNCHANGED batchVars
    /\ UNCHANGED guiVars

(* The caller passes the table the first run returned to the cleaner       *)
(* again, with the same side, pricing context and max_iter.                *)
Rerun ==
    /\ run = 1
    /\ state \in {"CLEAN", "ITER_EXHAUSTED", "ANCHOR_LOST"}
    /\ first' = [input |-> df, output |-> df_clean, state |-> state,
                 iterations |-> iteration]
    /\ df' = df_clean
    /\ run' = 2
    /\ state' = "START"
    /\ df_clean' = <<>>
    /\ atm_strike' = 0
    /\ atm_index' = 0
    /\ iteration' = 0
    /\ UNCHANGED <<option_type, cx, max_iter>>
    /\ UNCHANGED batchVars
    /\ UNCHANGED guiVars

Next == StartRun \/ Iteration \/ Rerun

Spec == Init /\ [][Next]_vars

----------------------------------------------------------------------------
(* clean_all_dataframes: the batch over the pairs of zip(list_of_dfs,      *)
(* option_types), with one cleaner shared by all tables and the default    *)
(* max_iter of clean_single_dataframe.  Tables are in ticks of 0.1 as in   *)
(* Scenario A, with spot bid = spot ask = 100 and r = 0.                   *)

Min2(a, b) == IF a <= b THEN a ELSE b

(* A call table that still loses one quote in each of DefaultMaxIter       *)
(* bodies: strikes 100, 101, ... with the lowest quote (the anchor) at     *)
(* 1/1 and every other quote at 2/2.  Only the pair of the two lowest      *)
(* strikes breaks monotonicity, so each body removes the second-lowest     *)
(* quote, and DefaultMaxIter + 2 rows are one more than the cap removes.   *)
CascadeTable ==
    Labelled([i \in 1..(DefaultMaxIter + 2) |->
                [strike |-> 1000 + 10 * (i - 1),
                 bid |-> IF i = 1 THEN 10 ELSE 20,
                 ask |-> IF i = 1 THEN 10 ELSE 20]], 0)

(* Two rows of a longer frame, keeping the labels 2 and 3 they had there;  *)
(* as calls the pair breaks monotonicity.                                  *)
SlicedTable ==
    Labelled(<< [strike |-> 1000, bid |-> 50, ask |-> 52],
                [strike |-> 1050, bid |-> 60, ask |-> 62] >>, 2)

\* Scenario B: a single quote, priced outside the model-free bounds
SingleQuoteTable ==
    Labelled(<< [strike |-> 1000, bid |-> 2000, ask |-> 2100] >>, 0)

EmptyTable == <<>>

BatchTables ==
    {ScenarioATable, CascadeTable, SlicedTable, SingleQuoteTable, EmptyTable}

\* the sequences over S of length 0..n
ListsUpTo(S, n) == UNION {[1..k -> S] : k \in 0..n}

\* zip(list_of_dfs, option_types) yields as many pairs as the shorter list has
PairCount(tables, types) == Min2(Len(tables), Len(types))

\* the state of the batch variables outside the single run
NoTable ==
    /\ df_clean = <<>>
    /\ atm_strike = 0
    /\ atm_index = 0
    /\ iteration = 0

(* lines 122-134: the caller's arguments, the cleaner, the empty results *)
BatchInit ==
    /\ list_of_dfs \in ListsUpTo(BatchTables, MaxTables)
    /\ option_types \in ListsUpTo(Sides, MaxTables)
    /\ cx = ScenarioAContext
    /\ max_iter = DefaultMaxIter
    /\ cleaned_dfs = <<>>
    /\ removed_counts = <<>>
    /\ batch = "LOOP"
    /\ df = <<>>
    /\ option_type = "none"
    /\ NoTable
    /\ state = "IDLE"
    /\ run = 1
    /\ first = NoRun
    /\ procs = <<>>
    /\ NoGui

(* line 136: the loop takes the next pair of the zip *)
NextPair ==
    /\ batch = "LOOP"
    /\ state = "IDLE"
    /\ Len(cleaned_dfs) < PairCount(list_of_dfs, option_types)
    /\ df' = list_of_dfs[Len(cleaned_dfs) + 1]
    /\ option_type' = option_types[Len(cleaned_dfs) + 1]
    /\ state' = "START"
    /\ df_clean' = <<>>
    /\ atm_strike' = 0
    /\ atm_index' = 0
    /\ iteration' = 0
    /\ UNCHANGED <<cx, max_iter, run, first>>
    /\ UNCHANGED batchVars
    /\ UNCHANGED guiVars

(* lines 148-150: clean_single_dataframe returned; store the results *)
StoreResult ==
    /\ batch = "LOOP"
    /\ state \in {"CLEAN", "ITER_EXHAUSTED", "ANCHOR_LOST"}
    /\ cleaned_dfs' = Append(cleaned_dfs, df_clean)
    /\ removed_counts' = Append(removed_counts, Len(df) - Len(df_clean))
    /\ state' = "IDLE"
    /\ UNCHANGED <<df, option_type, cx, max_iter, df_clean, atm_strike,
                   atm_index, iteration, run, first>>
    /\ UNCHANGED <<list_of_dfs, option_types, batch, procs>>
    /\ UNCHANGED guiVars

(* an exception raised at line 141 (ValueError) or 145 (KeyError) is not   *)
(* caught: the call ends without returning anything                        *)
Raise ==
    /\ batch = "LOOP"
    /\ state \in {"KEY_ERROR", "VALUE_ERROR"}
    /\ batch' = "RAISED"
    /\ UNCHANGED runVars
    /\ UNCHANGED <<list_of_dfs, option_types, cleaned_dfs, removed_counts,
                   procs>>
    /\ UNCHANGED guiVars

(* line 165: the zip is exhausted; return cleaned_dfs and the report *)
BatchReturn ==
    /\ batch = "LOOP"
    /\ state = "IDLE"
    /\ Len(cleaned_dfs) = PairCount(list_of_dfs, option_types)
    /\ batch' = "RETURNED"
    /\ UNCHANGED runVars
    /\ UNCHANGED <<list_of_dfs, option_types, cleaned_dfs, removed_counts,
                   procs>>
    /\ UNCHANGED guiVars

BatchNext ==
    NextPair \/ StartRun \/ Iteration \/ StoreResult \/ Raise \/ BatchReturn

BatchSpec == BatchInit /\ [][BatchNext]_vars

----------------------------------------------------------------------------
(* The per-table runs of one batch executed as concurrent processes: each  *)
(* pair of zip(list_of_dfs, option_types) is cleaned by a process of its   *)
(* own that holds the locals of clean_single_dataframe (df_clean,          *)
(* atm_strike, atm_index, the iteration count); the processes share the    *)
(* cleaner, and their steps (the choice of the anchor, one loop body)      *)
(* interleave in any order.  The results are collected in input order.     *)

NewProc ==
    [table |-> <<>>, strike |-> 0, label |-> 0, iteration |-> 0,
     state |-> "START"]

\* lines 141 and 96-97 for table t
ProcStarted(t, c, cap) ==
    IF Len(t) = 0
    THEN [NewProc EXCEPT !.state = "VALUE_ERROR"]
    ELSE [table |-> t,
          strike |-> identify_atm_strike(t, c),
          label |-> IndexOfStrike(t, identify_atm_strike(t, c)),
          iteration |-> 0,
          state |-> IF LoopContinues(0, cap) THEN "RUNNING" ELSE "ITER_EXHAUSTED"]

\* one loop body, lines 99-119, on the locals p of a process
ProcStepped(p, side, c, cap) ==
    LET b == LoopBody(p.table, p.label, p.strike, side, c)
    IN  [table |-> b.table,
         strike |-> p.strike,
         label |-> b.label,
         iteration |-> p.iteration + 1,
         state |-> StateAfter(b.outcome, p.iteration + 1, cap)]

\* a cleaner whose methods keep the strike of the first row as the spot
CleanerAfter_stores_spot(c, work) ==
    IF Len(work) = 0 THEN c
    ELSE [c EXCEPT !.Sb = work[1].strike, !.Sa = work[1].strike]

(* The cleaner after one of its methods ran on the frame `work`:           *)
(* identify_atm_strike and the three checkers read self.spot_bid,          *)
(* self.spot_ask, self.df_r and self.df_q (lines 14, 82-88) and assign no  *)
(* attribute of self; the attributes are set in __init__ only.             *)
CleanerAfter(c, work) == c

\* the tables of the concurrent batch: those whose run takes few bodies
ProcessBatchTables == BatchTables \ {CascadeTable}

ProcessBatchInit ==
    /\ list_of_dfs \in ListsUpTo(ProcessBatchTables, MaxTables)
    /\ option_types \in ListsUpTo(Sides, MaxTables)
    /\ cx = ScenarioAContext
    /\ max_iter = DefaultMaxIter
    /\ procs = [i \in 1..PairCount(list_of_dfs, option_types) |-> NewProc]
    /\ cleaned_dfs = <<>>
    /\ removed_counts = <<>>
    /\ batch = "CONCURRENT"
    /\ df = <<>>
    /\ option_type = "none"
    /\ NoTable
    /\ state = "IDLE"
    /\ run = 1
    /\ first = NoRun
    /\ NoGui

ProcStart(i) ==
    /\ batch = "CONCURRENT"
    /\ procs[i].state = "START"
    /\ procs' = [procs EXCEPT ![i] = ProcStarted(list_of_dfs[i], cx, max_iter)]
    /\ cx' = CleanerAfter(cx, list_of_dfs[i])
    /\ UNCHANGED <<df, option_type, max_iter, df_clean, atm_strike, atm_index,
                   iteration, state, run, first>>
    /\ UNCHANGED <<list_of_dfs, option_types, cleaned_dfs, removed_counts,
                   batch>>
    /\ UNCHANGED guiVars

ProcIteration(i) ==
    /\ batch = "CONCURRENT"
    /\ procs[i].state = "RUNNING"
    /\ procs' = [procs EXCEPT
                    ![i] = ProcStepped(procs[i], option_types[i], cx, max_iter)]
    /\ cx' = CleanerAfter(cx, procs'[i].table)
    /\ UNCHANGED <<df, option_type, max_iter, df_clean, atm_strike, atm_index,
                   iteration, state, run, first>>
    /\ UNCHANGED <<list_of_dfs, option_types, cleaned_dfs, removed_counts,
                   batch>>
    /\ UNCHANGED guiVars

\* every process has returned: lines 148-150 for each, in input order
Collect ==
    /\ batch = "CONCURRENT"
    /\ \A i \in DOMAIN procs :
            procs[i].state \in {"CLEAN", "ITER_EXHAUSTED", "ANCHOR_LOST"}
    /\ cleaned_dfs' = [i \in DOMAIN procs |-> procs[i].table]
    /\ removed_counts' =
            [i \in DOMAIN procs |-> Len(list_of_dfs[i]) - Len(procs[i].table)]
    /\ batch' = "RETURNED"
    /\ UNCHANGED runVars
    /\ UNCHANGED <<list_of_dfs, option_types, procs>>
    /\ UNCHANGED guiVars

\* every process has ended and one of them raised: the batch raises
CollectError ==
    /\ batch = "CONCURRENT"
    /\ \A i \in DOMAIN procs : procs[i].state \notin {"START", "RUNNING"}
    /\ \E i \in DOMAIN procs : procs[i].state \in {"KEY_ERROR", "VALUE_ERROR"}
    /\ batch' = "RAISED"
    /\ UNCHANGED runVars
    /\ UNCHANGED <<list_of_dfs, option_types, cleaned_dfs, removed_counts,
                   procs>>
    /\ UNCHANGED guiVars

ProcessBatchNext ==
    \/ \E i \in DOMAIN procs : ProcStart(i)
    \/ \E i \in DOMAIN procs : ProcIteration(i)
    \/ Collect
    \/ CollectError

ProcessBatchSpec == ProcessBatchInit /\ [][ProcessBatchNext]_vars

----------------------------------------------------------------------------
(* The volatility offset table (tk_main.py) and its confirmation popup     *)
(* (volatilitypopup.py).  Volatilities and offsets are integers in         *)
(* hundredths of a volatility point: 15.2 is 1520 and an offset of 0.04 is *)
(* 4.  Two of the eight maturities of the table are modelled; no handler   *)
(* couples one maturity to another.                                        *)
(*                                                                         *)
(* The text of an entry or of a cell is the record [float, value]: whether *)
(* float() accepts the text and, if so, the number it yields.              *)

Maturities == {"1D", "2D"}

VolTypes == {"ATM", "10D", "25D"}

\* __init__, lines 13-15, without the "Offset" key (lines 24-27)
InitialVolatility ==
    [m \in Maturities |->
        IF m = "1D"
        THEN [vt \in VolTypes |->
                 IF vt = "ATM" THEN 1520 ELSE IF vt = "10D" THEN 1650 ELSE 1480]
        ELSE [vt \in VolTypes |->
                 IF vt = "ATM" THEN 1500 ELSE IF vt = "10D" THEN 1630 ELSE 1460]]

NumberText(v) == [float |-> TRUE, value |-> v]

InvalidText == [float |-> FALSE, value |-> 0]

\* the numbers a user types: multiples of 0.04 up to 0.04 * MaxOffset
OffsetValues == {4 * k : k \in (-MaxOffset)..MaxOffset}

TypedTexts == {NumberText(v) : v \in OffsetValues} \cup {InvalidText}

(* f"{v:.1f}": the text of v rounded to one decimal, that is to the        *)
(* nearest multiple of 10 hundredths.  No value of OffsetValues lies       *)
(* halfway between two multiples of 10.                                    *)
Format1(v) ==
    LET r == v % 10
    IN  NumberText(IF r < 5 THEN v - r ELSE v - r + 10)

(* update_offset_cell_color, lines 206-215: the style of the cell whose    *)
(* text is `text`, given its current style.                                *)
StyleAfter(style, text) ==
    IF ~text.float THEN style
    ELSE IF text.value = 0 THEN "Offset.TLabel" ELSE "OffsetActive.TLabel"

update_volatilities_accumulating(data, original, maturity, offset) ==
    [data EXCEPT ![maturity] =
        [vt \in VolTypes |-> data[maturity][vt] + offset]]

(* update_volatilities, lines 179-192: each of ATM, 10D and 25D of the     *)
(* maturity becomes its original value plus the offset.                    *)
update_volatilities(data, original, maturity, offset) ==
    [data EXCEPT ![maturity] =
        [vt \in VolTypes |-> original[maturity][vt] + offset]]

NoPopup ==
    [maturity |-> "none", offset |-> 0,
     original_values |-> [vt \in VolTypes |-> 0],
     new_values |-> [vt \in VolTypes |-> 0]]

NoPress ==
    [vols |-> [vt \in VolTypes |-> 0], offset |-> InvalidText,
     style |-> "none"]

\* no cleaner is running beside the window
NoCleaner ==
    /\ df = <<>>
    /\ option_type = "none"
    /\ cx = ScenarioAContext
    /\ max_iter = DefaultMaxIter
    /\ NoTable
    /\ state = "IDLE"
    /\ run = 1
    /\ first = NoRun
    /\ list_of_dfs = <<>>
    /\ option_types = <<>>
    /\ cleaned_dfs = <<>>
    /\ removed_counts = <<>>
    /\ batch = "NONE"
    /\ procs = <<>>

(* __init__ and setup_ui: lines 13-27, 87-93, 105, 115 *)
GuiInit ==
    /\ NoCleaner
    /\ volatility_data = InitialVolatility
    /\ original_volatility_data = InitialVolatility
    /\ offset_entries = [m \in Maturities |-> Format1(0)]
    /\ offset_cells = [m \in Maturities |-> "Offset.TLabel"]
    /\ maturity_var = "1D"
    /\ offset_entry = NumberText(0)
    /\ popup = NoPopup
    /\ editing = "none"
    /\ event = "none"
    /\ last_offset = [m \in Maturities |-> 0]
    /\ pressed = NoPress

(* The user selects `maturity`, types `text` into the "Offset Value" entry *)
(* and presses "Apply Offset": apply_offset, lines 148-176.  The popup's   *)
(* constructor returns as soon as the popup is drawn (it grabs the input,  *)
(* volatilitypopup.py line 22, and does not wait for the popup to close),  *)
(* so lines 171-173 run in the same call.  While a popup is open the grab  *)
(* keeps the main window's buttons and cells from being pressed.           *)
ApplyOffset(maturity, text) ==
    /\ popup = NoPopup
    /\ maturity_var' = maturity
    /\ offset_entry' = text
    /\ IF text.float
       THEN LET offset_value == text.value
                new_values ==
                    [vt \in VolTypes |->
                        original_volatility_data[maturity][vt] + offset_value]
                shown == Format1(offset_value)
            IN  /\ popup' = [maturity |-> maturity,
                             offset |-> offset_value,
                             original_values |->
                                 original_volatility_data[maturity],
                             new_values |-> new_values]
                /\ offset_entries' =
                       [offset_entries EXCEPT ![maturity] = shown]
                /\ offset_cells' =
                       [offset_cells EXCEPT ![maturity] =
                           StyleAfter(offset_cells[maturity], shown)]
                /\ volatility_data' =
                       update_volatilities(volatility_data,
                           original_volatility_data, maturity, offset_value)
                /\ event' = "apply_offset"
                /\ last_offset' =
                       [last_offset EXCEPT ![maturity] = offset_value]
                /\ pressed' = [vols |-> volatility_data[maturity],
                               offset |-> offset_entries[maturity],
                               style |-> offset_cells[maturity]]
       ELSE /\ event' = "invalid_input"
            /\ UNCHANGED <<popup, offset_entries, offset_cells,
                           volatility_data, last_offset, pressed>>
    /\ UNCHANGED <<original_volatility_data, editing>>
    /\ UNCHANGED <<runVars, batchVars>>

(* on_confirm, volatilitypopup.py lines 150-156: the popup is destroyed    *)
(* and the message box "Confirmed" is shown.                               *)
Confirm ==
    /\ popup # NoPopup
    /\ popup' = NoPopup
    /\ event' = "on_confirm"
    /\ pressed' = NoPress
    /\ UNCHANGED <<volatility_data, original_volatility_data, offset_entries,
                   offset_cells, maturity_var, offset_entry, editing,
                   last_offset>>
    /\ UNCHANGED <<runVars, batchVars>>

(* on_cancel, volatilitypopup.py lines 158-164: the popup is destroyed and *)
(* the message box "Cancelled", "No changes were made." is shown.          *)
Cancel ==
    /\ popup # NoPopup
    /\ popup' = NoPopup
    /\ event' = "on_cancel"
    /\ pressed' = NoPress
    /\ UNCHANGED <<volatility_data, original_volatility_data, offset_entries,
                   offset_cells, maturity_var, offset_entry, editing,
                   last_offset>>
    /\ UNCHANGED <<runVars, batchVars>>

(* A click on the Offset cell of `maturity`: edit_offset, lines 124-134    *)
(* and 145-146, puts an entry over the cell and gives it the focus.        *)
EditOffset(maturity) ==
    /\ popup = NoPopup
    /\ editing = "none"
    /\ editing' = maturity
    /\ event' = "edit_offset"
    /\ UNCHANGED <<volatility_data, original_volatility_data, offset_entries,
                   offset_cells, maturity_var, offset_entry, popup,
                   last_offset, pressed>>
    /\ UNCHANGED <<runVars, batchVars>>

(* Return, or the loss of the focus, in the entry over a cell with `text`  *)
(* in it: save_offset, lines 136-143.  The focus may also be lost while a  *)
(* popup is open.                                                          *)
SaveOffset(text) ==
    /\ editing # "none"
    /\ IF text.float
       THEN LET shown == Format1(text.value)
            IN  /\ offset_entries' =
                       [offset_entries EXCEPT ![editing] = shown]
                /\ offset_cells' =
                       [offset_cells EXCEPT ![editing] =
                           StyleAfter(offset_cells[editing], shown)]
       ELSE UNCHANGED <<offset_entries, offset_cells>>
    /\ editing' = "none"
    /\ event' = "save_offset"
    /\ UNCHANGED <<volatility_data, original_volatility_data, maturity_var,
                   offset_entry, popup, last_offset, pressed>>
    /\ UNCHANGED <<runVars, batchVars>>

(* "Reset All": reset_all, lines 217-226 *)
ResetAll ==
    /\ popup = NoPopup
    /\ offset_entries' = [m \in Maturities |-> NumberText(0)]
    /\ offset_cells' =
           [m \in Maturities |->
               StyleAfter(offset_cells[m], NumberText(0))]
    /\ volatility_data' =
           [m \in Maturities |->
               [vt \in VolTypes |-> original_volatility_data[m][vt]]]
    /\ offset_entry' = NumberText(0)
    /\ event' = "reset_all"
    /\ last_offset' = [m \in Maturities |-> 0]
    /\ UNCHANGED <<original_volatility_data, maturity_var, popup, editing,
                   pressed>>
    /\ UNCHANGED <<runVars, batchVars>>

GuiNext ==
    \/ \E maturity \in Maturities, text \in TypedTexts :
           ApplyOffset(maturity, text)
    \/ Confirm
    \/ Cancel
    \/ \E maturity \in Maturities : EditOffset(maturity)
    \/ \E text \in TypedTexts : SaveOffset(text)
    \/ ResetAll

GuiSpec == GuiInit /\ [][GuiNext]_vars

----------------------------------------------------------------------------
(* Properties *)

Returned == {"CLEAN", "ITER_EXHAUSTED", "ANCHOR_LOST"}

Removed == Len(df) - Len(df_clean)

\* the row of table t with strike k
RowOfStrike(t, k) == CHOOSE r \in Rows(t) : r.strike = k

(* C1 - Anchor invariance: from the moment the anchor is chosen, after     *)
(* every iteration and in the table returned, the current table holds a    *)
(* quote with the anchor strike, with the bid and ask it has in the input. *)
AnchorInvariance ==
    state # "START" =>
        /\ atm_strike = identify_atm_strike(df, cx)
        /\ atm_strike \in StrikesOf(df_clean)
        /\ RowOfStrike(df_clean, atm_strike).bid = RowOfStrike(df, atm_strike).bid
        /\ RowOfStrike(df_clean, atm_strike).ask = RowOfStrike(df, atm_strike).ask

\* a run that removed quotes has returned, and the checkers flag the
\* anchor's label on the table it returned
AnchorFlaggedAndKept ==
    /\ run = 1
    /\ state \in Returned
    /\ Removed > 0
    /\ atm_index \in UnionOfViolations(df_clean, option_type, cx)

\* the side's monotonicity inequality for strikes lo < hi
MonotoneOk(lo, hi, side) ==
    IF side = "call" THEN lo.ask >= hi.bid ELSE lo.bid <= hi.ask

\* strike-adjacent pairs of a table: positions in strike order
AdjacentPairs(t) == 1..(Len(t) - 1)

(* C2 as stated - Monotonicity post-condition: in a table returned in      *)
(* CLEAN every pair of strike-adjacent quotes satisfies the side's         *)
(* monotonicity inequality, pairs with the anchor included.                *)
MonotoneWhenClean ==
    state = "CLEAN" =>
        \A i \in AdjacentPairs(df_clean) :
            MonotoneOk(SortedView(df_clean)[i], SortedView(df_clean)[i+1],
                       option_type)

(* C2 amended - in a table returned in CLEAN every strike-adjacent pair    *)
(* satisfies the side's monotonicity inequality, except possibly the pair  *)
(* whose higher-strike quote has the strike rank (0-based) equal to the    *)
(* anchor's index label; in a strike-sorted table with the default index   *)
(* that is the pair whose higher-strike quote is the anchor.               *)
MonotoneWhenCleanExceptAnchor ==
    state = "CLEAN" =>
        \A i \in AdjacentPairs(df_clean) :
            SortedView(df_clean)[i+1].idx # atm_index =>
                MonotoneOk(SortedView(df_clean)[i], SortedView(df_clean)[i+1],
                           option_type)

\* a run that removed a quote ended in CLEAN with at least one adjacent
\* pair that does not involve the anchor's label as the higher strike
CleanAfterRemovalWithPairs ==
    /\ run = 1
    /\ state = "CLEAN"
    /\ Removed > 0
    /\ \E i \in AdjacentPairs(df_clean) :
            SortedView(df_clean)[i+1].idx # atm_index

\* bid and ask of a quote within the side's model-free bounds
WithinBounds(r, side, c) ==
    /\ r.bid * c.den >= LowerBound(r.strike, side, c)
    /\ r.ask * c.den <= UpperBound(r.strike, side, c)

(* C3 as stated - Bounds post-condition: in a table returned in CLEAN      *)
(* every quote, the anchor included, lies within the model-free bounds.    *)
BoundsWhenClean ==
    state = "CLEAN" =>
        \A i \in DOMAIN df_clean : WithinBounds(df_clean[i], option_type, cx)

(* C3 amended - in a table returned in CLEAN every quote other than the    *)
(* anchor lies within the side's model-free bounds.                        *)
BoundsWhenCleanExceptAnchor ==
    state = "CLEAN" =>
        \A i \in DOMAIN df_clean :
            df_clean[i].strike # atm_strike =>
                WithinBounds(df_clean[i], option_type, cx)

\* a run ended in CLEAN after removing a quote that was out of bounds,
\* and a quote other than the anchor is left
CleanAfterBoundsRemoval ==
    /\ run = 1
    /\ state = "CLEAN"
    /\ \E i \in DOMAIN df :
            /\ ~WithinBounds(df[i], option_type, cx)
            /\ df[i].strike \notin StrikesOf(df_clean)
    /\ Len(df_clean) > 1

(* C4 as stated - Idempotence: the run on the table the first run          *)
(* returned removes no quote and returns the same table, whatever state    *)
(* the first run ended in.                                                 *)
Idempotent ==
    (run = 2 /\ state \notin {"START", "RUNNING"}) =>
        /\ state \in Returned
        /\ df_clean = first.output

(* C4 amended - when the first run ended in CLEAN, the run on the table it *)
(* returned ends in CLEAN in its first iteration, removes no quote and     *)
(* returns the same table.                                                 *)
IdempotentAfterClean ==
    (run = 2 /\ first.state = "CLEAN" /\ state \notin {"START", "RUNNING"}) =>
        /\ state = "CLEAN"
        /\ iteration = 1
        /\ df_clean = first.output

\* the second run has ended, after a first run that removed quotes and
\* ended in CLEAN
RerunAfterCleanRemoval ==
    /\ run = 2
    /\ state \notin {"START", "RUNNING"}
    /\ first.state = "CLEAN"
    /\ Len(first.output) < Len(first.input)

(* C5 - Termination: every step taken by a running loop is one loop body  *)
(* that raises the count of executed bodies by one, the loop runs only     *)
(* while fewer than max_iter bodies were executed, and the count never     *)
(* exceeds max_iter: a run ends after at most max_iter bodies.             *)
Termination ==
    [][/\ state = "RUNNING" =>
            (iteration < max_iter /\ iteration' = iteration + 1)
       /\ iteration' <= max_iter]_vars

\* a run went through all of its max_iter bodies, removing in each
AllIterationsUsed ==
    /\ state = "ITER_EXHAUSTED"
    /\ max_iter >= 2
    /\ iteration = max_iter

\* the strikes of the input that are absent from the current table
RemovedStrikes == StrikesOf(df) \ StrikesOf(df_clean)

\* table t without the quotes of the strikes in S, relabelled as drop and
\* reset_index leave it when something was removed
Without(t, S) ==
    IF S \cap StrikesOf(t) = {}
    THEN t
    ELSE ResetIndex(SelectSeq(t, LAMBDA r : r.strike \notin S))

\* removing the strikes S from t leaves a table on which the three
\* checkers flag nothing but the anchor's label
SufficientSet(t, S, side, c, anchor) ==
    all_violations(Without(t, S), side, c,
                   IndexOfStrike(Without(t, S), anchor)) = {}

(* C6 as stated - Minimality: when the cleaner terminates in CLEAN no set  *)
(* of non-anchor quotes smaller than the removed set leaves a table on     *)
(* which the checkers flag no non-anchor quote.                            *)
MinimalRemoval ==
    state = "CLEAN" =>
        ~ \E S \in SUBSET (StrikesOf(df) \ {atm_strike}) :
            /\ Cardinality(S) < Cardinality(RemovedStrikes)
            /\ SufficientSet(df, S, option_type, cx, atm_strike)

(* C6 amended - when the cleaner terminates in CLEAN the removed set is    *)
(* sufficient: removing it from the input leaves a table on which the      *)
(* three checkers flag nothing but the anchor's label.  It need not be of  *)
(* minimum size.                                                           *)
SufficientRemoval ==
    state = "CLEAN" =>
        SufficientSet(df, RemovedStrikes, option_type, cx, atm_strike)

\* a run ended in CLEAN having removed more quotes than a smaller
\* sufficient set would have
CleanWithLargerRemoval ==
    /\ run = 1
    /\ state = "CLEAN"
    /\ \E S \in SUBSET (StrikesOf(df) \ {atm_strike}) :
            /\ Cardinality(S) < Cardinality(RemovedStrikes)
            /\ SufficientSet(df, S, option_type, cx, atm_strike)

\* the strikes of the quotes the three checkers flag on table t: the
\* quote at each flagged position of the strike-sorted view, and the quote
\* of each label flagged by the bounds check
FlaggedStrikes(t, side, c) ==
    {SortedView(t)[p + 1].strike :
        p \in check_vertical_no_arb(t, side) \cup check_butterfly_no_arb(t, side)}
    \cup {t[i].strike : i \in {j \in DOMAIN t : t[j].idx \in check_bounds(t, side, c)}}

(* C7 - Removal by stable key: in every iteration the quotes removed are   *)
(* exactly the quotes whose strikes the checks flag on the current table,  *)
(* minus the anchor, for any row order and index labelling.                *)
RemovalByKey ==
    [][state = "RUNNING" =>
        StrikesOf(df_clean) \ StrikesOf(df_clean')
            = FlaggedStrikes(df_clean, option_type, cx) \ {atm_strike}]_vars

\* the rows of t, each with its own label, in the order given by p
PermuteRows(t, p) == [i \in DOMAIN t |-> t[p[i]]]

(* C8 - Row-order independence: cleaning any row permutation of the input  *)
(* returns the same set of surviving quotes and the same removed count as  *)
(* cleaning the input.                                                     *)
RowOrderIndependent ==
    (run = 1 /\ state \in Returned) =>
        \A p \in Permutations(DOMAIN df) :
            LET r == CleanTable(PermuteRows(df, p), option_type, max_iter, cx)
            IN  /\ r.state \in Returned
                /\ QuotesOf(r.table) = QuotesOf(df_clean)
                /\ Len(df) - Len(r.table) = Removed

(* C9 - Scenario A: the run on the scenario's call table removes the 105   *)
(* quote, keeps the ATM quote 100 and reaches CLEAN within 2 iterations.   *)
ScenarioARemoves105 ==
    (run = 1 /\ df = ScenarioATable /\ cx = ScenarioAContext
        /\ state \notin {"START", "RUNNING"}) =>
        /\ state = "CLEAN"
        /\ iteration <= 2
        /\ 1050 \notin StrikesOf(df_clean)
        /\ 1000 \in StrikesOf(df_clean)

\* twice the distance of strike k to the spot mid
MidDistance(k, c) == AbsVal(2 * k - (c.Sb + c.Sa))

(* C10 - ATM selection: the strike chosen is a strike of the table at      *)
(* minimal distance to the spot mid and, among equidistant strikes, the    *)
(* lowest one, whatever the row order.                                     *)
AtmLowestOfClosest ==
    (state # "START" /\ df # <<>>) =>
        /\ atm_strike \in StrikesOf(df)
        /\ \A k \in StrikesOf(df) :
                /\ MidDistance(atm_strike, cx) <= MidDistance(k, cx)
                /\ MidDistance(atm_strike, cx) = MidDistance(k, cx)
                        => atm_strike <= k

(* C11 - Mismatched lengths are a usage error: when the list of tables and *)
(* the list of side labels differ in length, clean_all_dataframes takes no *)
(* pair of the lists, stores no cleaned table and no report entry, and     *)
(* does not return.                                                        *)
MismatchIsUsageError ==
    Len(list_of_dfs) # Len(option_types) =>
        /\ batch # "RETURNED"
        /\ state = "IDLE"
        /\ cleaned_dfs = <<>>
        /\ removed_counts = <<>>

\* the caller's lists have equal lengths and no table is empty
WellFormedBatch ==
    /\ Len(list_of_dfs) = Len(option_types)
    /\ \A i \in DOMAIN list_of_dfs : list_of_dfs[i] # <<>>

(* C12 - Batch report: for lists of equal length of non-empty tables the   *)
(* batch raises nothing, stores for each table processed, in input order,  *)
(* one cleaned table made of quotes of that input table and one            *)
(* removed_counts entry equal to the difference of their sizes, which is   *)
(* not negative, goes on after a run that ended in ITER_EXHAUSTED, and     *)
(* returns one entry per input table.                                      *)
BatchReport ==
    WellFormedBatch =>
        /\ batch # "RAISED"
        /\ state \notin {"KEY_ERROR", "VALUE_ERROR"}
        /\ Len(removed_counts) = Len(cleaned_dfs)
        /\ \A i \in DOMAIN cleaned_dfs :
                /\ QuotesOf(cleaned_dfs[i]) \subseteq QuotesOf(list_of_dfs[i])
                /\ removed_counts[i] = Len(list_of_dfs[i]) - Len(cleaned_dfs[i])
                /\ removed_counts[i] >= 0
        /\ batch = "RETURNED" => Len(cleaned_dfs) = Len(list_of_dfs)

\* the position, in the caller's list, of the table the batch took last
CurrentPair ==
    IF state = "IDLE" THEN Len(cleaned_dfs) ELSE Len(cleaned_dfs) + 1

SequentialRun(i) ==
    IF Len(list_of_dfs[i]) = 0
    THEN [table |-> <<>>, state |-> "VALUE_ERROR", iterations |-> 0]
    ELSE CleanTable(list_of_dfs[i], option_types[i], DefaultMaxIter, cx)

StrikeRank(t, k) == Cardinality({j \in DOMAIN t : t[j].strike < k})

\* the quote in row i of t is outside the model-free bounds and neither
\* the vertical nor the butterfly check flags it
BoundsOnly(t, i, side, c) ==
    /\ ~WithinBounds(t[i], side, c)
    /\ StrikeRank(t, t[i].strike) \notin
            check_vertical_no_arb(t, side) \cup check_butterfly_no_arb(t, side)

IsScenarioD ==
    /\ run = 1
    /\ option_type = "call"
    /\ Len(df) = 3
    /\ df[1].strike = 950 /\ df[2].strike = 1000 /\ df[3].strike = 1050
    /\ \A i \in DOMAIN df : df[i].idx = i - 1
    /\ df[1].bid - 2 * df[2].ask + df[3].bid > 0

(* C16 - Scenario D: on such a table the butterfly check flags the 100     *)
(* quote (position 1 of the sorted view); when 100 is not the anchor the   *)
(* quote is gone once iteration 1 has run; when 100 is the anchor it stays *)
(* in the table, and if the checkers flag no other quote the run ends in   *)
(* CLEAN in iteration 1 with the table unchanged.                          *)
ButterflyScenario ==
    IsScenarioD =>
        /\ 1 \in check_butterfly_no_arb(df, option_type)
        /\ (state # "START" /\ iteration >= 1 /\ atm_strike # 1000) =>
                1000 \notin StrikesOf(df_clean)
        /\ (state # "START" /\ atm_strike = 1000) =>
                /\ 1000 \in StrikesOf(df_clean)
                /\ (iteration >= 1
                        /\ UnionOfViolations(df, option_type, cx) \subseteq {1}) =>
                            /\ state = "CLEAN"
                            /\ iteration = 1
                            /\ df_clean = df

\* the run on a Scenario D table with the anchor 95 has ended in CLEAN
\* without the 100 quote and with the other two quotes
ScenarioDBodyRemoved ==
    /\ IsScenarioD
    /\ state = "CLEAN"
    /\ atm_strike = 950
    /\ StrikesOf(df_clean) = {950, 1050}

(* C17 - Scenario B: for a table of a single quote, of either side, with  *)
(* any bid and ask and any index label, the anchor chosen is the quote's   *)
(* strike, and the run ends in CLEAN in its first iteration and returns    *)
(* the table unchanged, with zero removals.                                *)
SingleQuoteUnchanged ==
    (Len(df) = 1 /\ state # "START") =>
        /\ atm_strike = df[1].strike
        /\ state = "RUNNING" => iteration = 0
        /\ state # "RUNNING" =>
                /\ state = "CLEAN"
                /\ iteration = 1
                /\ df_clean = df
                /\ Removed = 0

\* the run on a single quote that lies outside the model-free bounds and
\* carries a label other than 0 has ended
SingleQuoteOutOfBounds ==
    /\ run = 1
    /\ Len(df) = 1
    /\ df[1].idx # 0
    /\ ~WithinBounds(df[1], option_type, cx)
    /\ state \notin {"START", "RUNNING"}

DefaultIndex(t) == \A i \in DOMAIN t : t[i].idx = i - 1

(* C19 - Progress and convergence: on an input of n quotes with the        *)
(* default index every loop body either stops in CLEAN and leaves the      *)
(* table as it is, or removes at least one quote and goes on (or stops at  *)
(* the cap); the number of bodies that removed quotes never exceeds n - 1; *)
(* and when max_iter >= n no body ends the run by exhausting the cap, so   *)
(* that the run, which ends within max_iter bodies, ends in CLEAN.         *)
ProgressAndConvergence ==
    [][(state = "RUNNING" /\ DefaultIndex(df)) =>
        /\ \/ state' = "CLEAN" /\ df_clean' = df_clean
           \/ /\ state' \in {"RUNNING", "ITER_EXHAUSTED"}
              /\ Len(df_clean') < Len(df_clean)
        /\ iteration' - (IF state' = "CLEAN" THEN 1 ELSE 0) <= Len(df) - 1
        /\ max_iter >= Len(df) => state' \in {"RUNNING", "CLEAN"}
      ]_vars

\* a run with max_iter >= n on n >= 2 quotes has ended in CLEAN in body n,
\* after n - 1 bodies that removed one quote each
ConvergedInLastPossibleBody ==
    /\ run = 1
    /\ DefaultIndex(df)
    /\ Len(df) >= 2
    /\ max_iter >= Len(df)
    /\ state = "CLEAN"
    /\ iteration = Len(df)
    /\ Len(df_clean) = 1

\* the quotes (strike, bid, ask) of table t in row order
QuoteSeq(t) == [i \in DOMAIN t |-> <<t[i].strike, t[i].bid, t[i].ask>>]

\* a is b with some elements left out: same elements, same relative order
RECURSIVE IsSubSeq(_, _)
IsSubSeq(a, b) ==
    IF a = <<>> THEN TRUE
    ELSE IF b = <<>> THEN FALSE
    ELSE IF Head(a) = Head(b) THEN IsSubSeq(Tail(a), Tail(b))
    ELSE IsSubSeq(a, Tail(b))

(* C20 - Sub-collection invariant: from the copy of the input on, after    *)
(* every loop body the quotes of the current table are quotes of the input *)
(* with their strike, bid and ask, in the input's relative row order, none *)
(* added, duplicated or altered, and the table after a body is a           *)
(* sub-collection of the table before it, so its size never increases.     *)
SubCollection ==
    [][/\ state' \notin {"START", "IDLE"} =>
            IsSubSeq(QuoteSeq(df_clean'), QuoteSeq(df'))
       /\ state = "RUNNING" =>
            /\ IsSubSeq(QuoteSeq(df_clean'), QuoteSeq(df_clean))
            /\ Len(df_clean') <= Len(df_clean)
      ]_vars

\* a run on a table that is not in strike order has removed quotes and
\* left at least two, still not in strike order
RemovedFromUnsorted ==
    /\ run = 1
    /\ state \in Returned
    /\ Removed > 0
    /\ \E i \in 1..(Len(df_clean) - 1) :
            df_clean[i].strike > df_clean[i+1].strike

\* table t is in ascending strike order and carries the default index
SortedDefault(t) ==
    /\ DefaultIndex(t)
    /\ \A i \in 1..(Len(t) - 1) : t[i].strike < t[i+1].strike

(* C21 - CLEAN means only the anchor may still be flagged: when a run on a *)
(* strike-sorted table with the default index ends in CLEAN, the vertical, *)
(* butterfly and bounds checks run again on the returned table flag no     *)
(* quote other than the anchor, and every quote of the result other than   *)
(* the anchor lies within the model-free bounds.                           *)
CleanOnlyAnchorFlagged ==
    (state = "CLEAN" /\ SortedDefault(df)) =>
        /\ FlaggedStrikes(df_clean, option_type, cx) \subseteq {atm_strike}
        /\ \A i \in DOMAIN df_clean :
                df_clean[i].strike # atm_strike =>
                    WithinBounds(df_clean[i], option_type, cx)

\* a run on a strike-sorted table with the default index removed quotes
\* and ended in CLEAN with the anchor still flagged beside other quotes
CleanSortedAnchorStillFlagged ==
    /\ run = 1
    /\ state = "CLEAN"
    /\ SortedDefault(df)
    /\ Removed > 0
    /\ Len(df_clean) >= 2
    /\ atm_strike \in FlaggedStrikes(df_clean, option_type, cx)

(* C22 - Cancel makes no changes: pressing Apply Offset only opens the     *)
(* popup and leaves the volatilities and the displayed offsets as they     *)
(* were, and when Cancel is pressed in the popup the maturity's ATM, 10D   *)
(* and 25D volatilities and its displayed offset are what they were before *)
(* Apply Offset was pressed.                                               *)
CancelMakesNoChanges ==
    [][/\ (popup = NoPopup /\ popup' # NoPopup) =>
              /\ volatility_data' = volatility_data
              /\ offset_entries' = offset_entries
       /\ (popup # NoPopup /\ event' = "on_cancel") =>
              /\ volatility_data'[popup.maturity] = pressed.vols
              /\ offset_entries'[popup.maturity] = pressed.offset]_vars

DisplayedOffsetMatchesApplied ==
    \A m \in Maturities :
        LET difference == volatility_data[m]["ATM"]
                              - original_volatility_data[m]["ATM"]
        IN  /\ offset_entries[m] = NumberText(difference)
            /\ offset_cells[m] = "OffsetActive.TLabel" <=> difference # 0

====
